---- MODULE Spec2Model ----
(***************************************************************************)
(* Connection-lifecycle protocol of network-cluster: the Provider (hub)    *)
(* with its heartbeat cycle and connection pool, and the Consumer (member) *)
(* with its reconnect policy and ready() queue.                            *)
(*                                                                         *)
(* The transports (uWebSockets behind HyperExpress on the hub, the ws      *)
(* package on the member) are the environment: they call the handlers the  *)
(* two classes bind, and take the calls send/end/close the classes make.   *)
(***************************************************************************)
EXTENDS Integers, Sequences, FiniteSets, TLC

\* ------------------------------------------------------------------ bounds
MaxConns == 2          \* connection ids the hub may hand out
MaxStrikesOpt == 2     \* heartbeat.max_strikes ranges over 0..MaxStrikesOpt
MaxOut == 3            \* payloads the hub may have sent on one connection
HbInterval == 2        \* heartbeat.interval of the hub, in clock units
MaxAttemptsOpt == 2    \* reconnect.max_attempts ranges over 0..MaxAttemptsOpt
MaxWs == 3             \* transport connections one member may create
MaxCalls == 3          \* ready()/connect() calls made on one member
MaxIn == 2             \* payloads delivered to one member
MaxTime == 2           \* clock readings 0..MaxTime
MaxSends == 2          \* payloads of the application one transport may hold unsent
MaxClock == 7          \* clock readings 0..MaxClock where the watchdog is watched

ConnIds == 1..MaxConns

\* ---------------------------------------------------------------- payloads
\* A text payload is its leading token and its numeric tail: 'PING' is
\* <tag "PING">, 'PROVIDER_HEARTBEAT|150' is <tag "PROVIDER_HEARTBEAT|", 150>,
\* anything else is application text.
Msg(tag, arg) == [tag |-> tag, arg |-> arg]
PING == Msg("PING", 0)
PONG == Msg("PONG", 0)
AppPayloads == {Msg("APP", 1)}

\* ------------------------------------------------------------------- state
VARIABLES
    \* Provider
    max_strikes,       \* #options.heartbeat.max_strikes
    hb_interval_ms,    \* #options.heartbeat.interval
    auth_parameters,   \* #options.auth.parameters: configured or not, and the map
    auth_handler,      \* #options.auth.handler: "null" or "function"
    error_handler,     \* #handlers.error: "default" (throws) or "custom"
    connections,       \* #connections: the ids in the pool, in insertion order
    conn,              \* the user data of each websocket: alive, strikes
    socket,            \* hub-side transport state of each connection id
    h_out,             \* payloads the hub handed to ws.send, per connection
    heartbeat_timer,   \* #heartbeat_interval is armed
    server_listening,  \* #server accepts upgrade requests
    close_sync,        \* the transport runs the close callback inside end()
    message_listener,  \* the application registered a listener of the hub's
                       \* 'message' event
    close_handler,     \* the application's listener of the hub's 'close' event:
                       \* "none", or "end_peers": it ends every connection
                       \* left in Provider.connections
    upgrade_result,    \* outcome of the last upgrade request
    hub_fault,         \* an exception escaped the heartbeat cycle
    \* observers of the hub
    since_ping,        \* cycles a connection went through since its last PING,
                       \* -1 when no PING is unanswered
    kill_ticks,        \* since_ping of every connection a cycle force-closed
    pong_at,           \* strikes the connection had that sent the last PONG, -1 if none
    heard,             \* the calls of the hub's 'message' listener made by the
                       \* last run of _on_connection_message
    \* Consumer
    max_attempts,      \* #options.reconnect.max_attempts
    connected,         \* #connected
    in_flight,         \* #in_flight
    fatal_error,       \* #fatal_error: the stored error object, kind "none" if unset
    reconnect_attempts,\* #reconnect_attempts, Infinity included
    ready_queue,       \* #ready_queue: the waiters (promise ids) in enqueue order
    ws,                \* #ws: serial number and readyState of the current transport
    timers,            \* reconnect timers (setTimeout of the close handler) pending
    m_out,             \* payloads the member handed to #ws.send and not yet taken
    last_ping,         \* #last_ping
    heartbeat_duration,\* #heartbeat_duration
    watchdogs,         \* intervals armed by _initiate_check_cycle and not cleared
    orphans,           \* transports that _create_ws_connection dropped while
                       \* they were connecting or open: stripped of their
                       \* listeners, not closed
    now,               \* Date.now()
    \* observers of the member
    settled,           \* every resolve()/reject() call on a ready() promise, in order
    app_messages,      \* payloads emitted as 'message' events
    m_in,              \* payloads the transport delivered to the message handler
    close_log,         \* #reconnect_attempts at each 'close' event emitted
    m_sent,            \* every payload handed to #ws.send, with #last_ping and
                       \* the clock as they were at the call
    opened_at,         \* the clock when the last 'open' event of a transport
                       \* was handled, -1 if none
    send_results,      \* how the send() calls of the application ended, with
                       \* #connected and the transport's readyState at the call
    \* the wire between the two
    peer,              \* the hub's connection id for the member's transport, 0 if none
    late               \* a heartbeat cycle ran while a PING to the member's
                       \* transport or its reply was still on the wire

member_config == <<max_attempts>>
member_state == <<connected, in_flight, fatal_error, reconnect_attempts,
                  ready_queue, ws, timers, m_out, last_ping,
                  heartbeat_duration, watchdogs, orphans>>
member_obs == <<settled, app_messages, m_in, close_log, m_sent,
               send_results, opened_at>>
member_vars == <<member_config, member_state, member_obs, now>>

hub_config == <<max_strikes, hb_interval_ms, auth_parameters, auth_handler,
                error_handler, close_sync, close_handler, message_listener>>
hub_state == <<connections, conn, socket, h_out, heartbeat_timer,
               server_listening, upgrade_result, hub_fault>>
hub_obs == <<since_ping, kill_ticks, pong_at, heard>>
hub_vars == <<hub_config, hub_state, hub_obs>>

wire_vars == <<peer, late>>

vars == <<hub_vars, member_vars, wire_vars>>

\* ----------------------------------------------------------------- helpers
Range(s) == {s[i] : i \in 1..Len(s)}

RECURSIVE Without(_, _)
Without(s, x) ==
    IF s = <<>> THEN <<>>
    ELSE IF Head(s) = x THEN Without(Tail(s), x)
    ELSE <<Head(s)>> \o Without(Tail(s), x)

\* ================================================================ Provider

NewConnection == [alive |-> TRUE, strikes |-> 0]

\* a close handler that deletes nothing
PoolWithoutNothing(pool, id) == pool

\* _on_connection_close: delete this.#connections[ws.id]
PoolWithout(pool, id) == Without(pool, id)

RECURSIVE CloseSocket(_, _)
RECURSIVE EndConnection(_, _)
RECURSIVE EndPeers(_, _)

\* the transport closes a socket and runs _on_connection_close for it: the
\* id leaves the pool, the socket's user data and the payloads it had not
\* delivered die with it, and the 'close' event runs the application's
\* listener before the callback returns
CloseSocket(st, id) ==
    LET closed == [st EXCEPT !.socket[id] = "closed",
                             !.connections = PoolWithout(@, id),
                             !.conn[id] = NewConnection,
                             !.h_out[id] = <<>>]
    IN  IF close_handler = "end_peers"
        THEN EndPeers(closed, closed.connections)
        ELSE closed

\* connection.end() on the hub: closes the socket; the transport then runs
\* _on_connection_close at once (close_sync) or as a later event.
EndConnection(st, id) ==
    IF st.socket[id] # "open" THEN st
    ELSE IF close_sync
         THEN CloseSocket(st, id)
         ELSE [st EXCEPT !.socket[id] = "ended"]

\* a 'close' listener that ends the connections it finds in the pool
EndPeers(st, ids) ==
    IF ids = <<>> THEN st
    ELSE EndPeers(EndConnection(st, Head(ids)), Tail(ids))

\* a cycle that strikes once more: connection.strikes <= max_strikes
StrikeAllowedInclusive(c) == c.strikes <= max_strikes

\* a cycle that strikes whatever the count is
StrikeAllowedAlways(c) == TRUE

\* connection.strikes < max_strikes
StrikeAllowed(c) == c.strikes < max_strikes

\* a cycle that takes every connection for alive
UnansweredNever(c) == FALSE

\* connection.alive === false: the last PING was not answered
Unanswered(c) == c.alive = FALSE

\* the body of the forEach in _perform_heartbeat_cycle, for one id of the
\* snapshot; reading .alive of a missing entry throws and ends the forEach
CycleStep(st, id) ==
    IF st.fault THEN st
    ELSE IF id \notin Range(st.connections) THEN [st EXCEPT !.fault = TRUE]
    ELSE IF Unanswered(st.conn[id])
         THEN IF StrikeAllowed(st.conn[id])
              THEN [st EXCEPT !.conn[id].strikes = @ + 1]
              ELSE EndConnection(st, id)
         ELSE [st EXCEPT !.conn[id].alive = FALSE,
                         !.h_out[id] = Append(@, PING)]

RECURSIVE CycleOver(_, _)
CycleOver(st, ids) ==
    IF ids = <<>> THEN st
    ELSE CycleOver(CycleStep(st, Head(ids)), Tail(ids))

HubSt == [connections |-> connections, conn |-> conn, socket |-> socket,
          h_out |-> h_out, fault |-> FALSE]

\* _perform_heartbeat_cycle: snapshot Object.keys(#connections), then the
\* forEach over the snapshot
HeartbeatCycle == CycleOver(HubSt, connections)

\* Provider.destroy(): end() every connection of a snapshot of the keys
RECURSIVE EndAll(_, _)
EndAll(st, ids) ==
    IF ids = <<>> THEN st
    ELSE IF Head(ids) \notin Range(st.connections)
         THEN [st EXCEPT !.fault = TRUE]
         ELSE EndAll(EndConnection(st, Head(ids)), Tail(ids))

\* ---- upgrade gate
\* a JavaScript value: its type and its text; === compares both
Str(text) == [type |-> "string", text |-> text]
Num(text) == [type |-> "number", text |-> text]

AuthKeys == {"key", "extra"}
\* the values options.auth.parameters may hold
AuthValues == {Str("secret"), Num("1")}
\* the values of request.query_parameters: strings all
QueryValues == {Str("secret"), Str("1")}
AuthMaps == UNION {[K -> AuthValues] : K \in SUBSET AuthKeys}
QueryMaps == UNION {[K -> QueryValues] : K \in SUBSET AuthKeys}
NoParameters == [configured |-> FALSE, map |-> [k \in {} |-> Str("secret")]]
\* options.auth.parameters: null, or an object
AuthConfigs == {NoParameters} \cup {[configured |-> TRUE, map |-> m] : m \in AuthMaps}
\* what the auth handler does with a request: resolve to true, to a truthy
\* value that is not true, to false, or throw/reject
HandlerResults == {"true", "truthy", "false", "throw"}
Requests == [query : QueryMaps, handler_result : HandlerResults]

\* a request with no query parameters
PlainRequest == [query |-> [k \in {} |-> Str("secret")], handler_result |-> "true"]

\* a parameter check that compares with != : the texts only
ParametersVerdictLoose(required, query) ==
    \A key \in DOMAIN required :
        key \in DOMAIN query /\ query[key].text = required[key].text

\* the forEach over Object.keys(parameters): request_parameters[key] !== parameters[key]
ParametersVerdict(required, query) ==
    \A key \in DOMAIN required :
        key \in DOMAIN query /\ query[key] = required[key]

\* a gate that asks the auth handler first and checks the parameters after
UpgradeVerdictHandlerFirst(req) ==
    IF auth_handler = "function" /\ req.handler_result # "true"
    THEN [verdict |-> IF req.handler_result = "throw" /\ error_handler = "default"
                      THEN "threw" ELSE "rejected",
          handler_called |-> TRUE]
    ELSE IF auth_parameters.configured
            /\ ~ParametersVerdict(auth_parameters.map, req.query)
    THEN [verdict |-> "rejected", handler_called |-> auth_handler = "function"]
    ELSE [verdict |-> "upgraded", handler_called |-> auth_handler = "function"]

\* _on_connection_upgrade up to its three exits: "rejected" (_reject_upgrade,
\* HTTP 403), "upgraded" (_upgrade_connection), "threw" (the error handler
\* rethrew inside the catch block, nothing was sent)
UpgradeVerdict(req) ==
    IF auth_parameters.configured
       /\ ~ParametersVerdict(auth_parameters.map, req.query)
    THEN [verdict |-> "rejected", handler_called |-> FALSE]
    ELSE IF auth_handler = "function"
    THEN CASE req.handler_result = "true" ->
                 [verdict |-> "upgraded", handler_called |-> TRUE]
           [] req.handler_result = "throw" ->
                 [verdict |-> IF error_handler = "default" THEN "threw"
                              ELSE "rejected",
                  handler_called |-> TRUE]
           [] OTHER -> [verdict |-> "rejected", handler_called |-> TRUE]
    ELSE [verdict |-> "upgraded", handler_called |-> FALSE]

FreeIds == {id \in ConnIds : socket[id] = "none"}

\* UUID.v4(): an id never handed out before
FreshId == CHOOSE id \in FreeIds : \A other \in FreeIds : id <= other

\* a gate that goes on to the upgrade after it sent the 403
UpgradesAfterReject(v) == v.verdict \in {"upgraded", "rejected"}

\* the exit of the gate that calls _upgrade_connection
Upgrades(v) == v.verdict = "upgraded"

_on_connection_upgrade(req) ==
    /\ server_listening
    /\ FreeIds # {}
    /\ upgrade_result' = [verdict |-> UpgradeVerdict(req).verdict,
                          handler_called |-> UpgradeVerdict(req).handler_called,
                          request |-> req]
    /\ IF Upgrades(UpgradeVerdict(req))
       THEN /\ socket' = [socket EXCEPT ![FreshId] = "upgraded"]
            /\ conn' = [conn EXCEPT ![FreshId] = NewConnection]
       ELSE UNCHANGED <<socket, conn>>
    /\ UNCHANGED <<hub_config, connections, h_out, heartbeat_timer,
                   server_listening, hub_fault, hub_obs>>

\* an announcement that carries no interval
AnnouncementBare == Msg("PROVIDER_HEARTBEAT|", 0)

\* 'PROVIDER_HEARTBEAT|' + this.#options.heartbeat.interval
Announcement == Msg("PROVIDER_HEARTBEAT|", hb_interval_ms)

_on_connection_open(id) ==
    /\ socket[id] = "upgraded"
    /\ socket' = [socket EXCEPT ![id] = "open"]
    /\ connections' = Append(PoolWithout(connections, id), id)
    /\ h_out' = [h_out EXCEPT ![id] = Append(@, Announcement)]
    /\ UNCHANGED <<hub_config, conn, heartbeat_timer, server_listening,
                   upgrade_result, hub_fault, hub_obs>>

\* a PONG branch that clears the strikes and leaves alive as it is
MarkAliveStrikesOnly(c) == [c EXCEPT !.strikes = 0]

\* a PONG branch that revives the connection and keeps its strikes
MarkAliveKeepStrikes(c) == [c EXCEPT !.alive = TRUE]

\* the PONG branch of _on_connection_message
MarkAlive(c) == [c EXCEPT !.strikes = 0, !.alive = TRUE]

\* a handler that hands every payload on, the PONG too
HubForwardsAll(message) == TRUE

\* what _on_connection_message hands to the 'message' event: all but 'PONG'
HubForwards(message) == message # PONG

_on_connection_message(id, message) ==
    /\ socket[id] = "open"
    /\ heard' = IF ~message_listener THEN heard
                ELSE IF HubForwards(message)
                THEN <<[ws |-> id, message |-> message]>>
                ELSE <<>>
    /\ IF message = PONG
       THEN /\ conn' = [conn EXCEPT ![id] = MarkAlive(@)]
            /\ pong_at' = conn[id].strikes
            /\ since_ping' = [since_ping EXCEPT ![id] = -1]
       ELSE UNCHANGED <<conn, pong_at, since_ping>>
    /\ UNCHANGED <<hub_config, connections, socket, h_out, heartbeat_timer,
                   server_listening, upgrade_result, hub_fault, kill_ticks>>

\* the transport's close event: the peer or the network closed the socket, or
\* a close the hub asked for with end() completes
_on_connection_close(id) ==
    /\ socket[id] \in {"open", "ended"}
    /\ LET st == CloseSocket(HubSt, id)
       IN  /\ socket' = st.socket
           /\ connections' = st.connections
           /\ conn' = st.conn
           /\ h_out' = st.h_out
    /\ since_ping' = [since_ping EXCEPT ![id] = -1]
    /\ UNCHANGED <<hub_config, heartbeat_timer, server_listening,
                   upgrade_result, hub_fault, kill_ticks, pong_at, heard>>

\* one firing of the setInterval armed by _initiate_heartbeat_cycle
_perform_heartbeat_cycle ==
    /\ heartbeat_timer
    /\ \A id \in Range(connections) :
           conn[id].alive => Len(h_out[id]) < MaxOut
    /\ LET st == HeartbeatCycle
           pinged(id) == Len(st.h_out[id]) > Len(h_out[id])
           seen(id) == id \in Range(connections) /\ socket[id] = "open"
       IN  /\ connections' = st.connections
           /\ conn' = st.conn
           /\ socket' = st.socket
           /\ h_out' = st.h_out
           /\ hub_fault' = (hub_fault \/ st.fault)
           /\ since_ping' = [id \in ConnIds |->
                  IF st.socket[id] = "closed" THEN -1
                  ELSE IF pinged(id) THEN 0
                  ELSE IF seen(id) /\ since_ping[id] >= 0 THEN since_ping[id] + 1
                  ELSE since_ping[id]]
           /\ kill_ticks' = kill_ticks \cup
                  {since_ping[id] + 1 : id \in
                      {i \in ConnIds : socket[i] = "open" /\ st.socket[i] # "open"}}
    /\ UNCHANGED <<hub_config, heartbeat_timer, server_listening,
                   upgrade_result, pong_at, heard>>

\* Provider.destroy()
ProviderDestroy ==
    /\ server_listening
    /\ LET st == EndAll(HubSt, connections)
       IN  /\ connections' = st.connections
           /\ socket' = st.socket
           /\ conn' = st.conn
           /\ h_out' = st.h_out
           /\ hub_fault' = (hub_fault \/ st.fault)
           /\ since_ping' = [id \in ConnIds |->
                  IF st.socket[id] = "closed" THEN -1 ELSE since_ping[id]]
    /\ server_listening' = FALSE
    /\ heartbeat_timer' = FALSE
    /\ UNCHANGED <<hub_config, upgrade_result, kill_ticks, pong_at, heard>>

\* ================================================================ Consumer

\* Infinity, as _handle_error_message and destroy() store it in
\* #reconnect_attempts
Infinity == -1

\* attempts < policy.max_attempts, on numbers that may be Infinity
LessThan(a, b) == a # Infinity /\ (b = Infinity \/ a < b)

\* reference.#reconnect_attempts++
Increment(a) == IF a = Infinity THEN Infinity ELSE a + 1

\* #heartbeat_duration = 30 * 1000, in clock units
DefaultDuration == 3

NoError == [kind |-> "none", of |-> 0]
\* the Error of the ws package for a rejected upgrade of transport n:
\* message 'Unexpected server response: 403'
Rejection(n) == [kind |-> "e403", of |-> n]
\* new Error('Instance Destroyed')
Destroyed == [kind |-> "destroyed", of |-> 0]
\* new Error('Instance is not in flight. Please call Consumer.connect() first.')
UsageError == [kind |-> "usage", of |-> 0]
Resolved == [kind |-> "resolved", of |-> 0]

\* what the transport may raise as an 'error' event: the rejected upgrade,
\* any other error with a message, an error whose message is empty
ErrorKinds == {"e403", "other", "empty"}

\* the promise id of the next ready() call
NextWaiter == Len(settled) + Len(ready_queue) + 1

Settle(w, how, queued) == [w |-> w, how |-> how, queued |-> queued]

\* a flush that walks the queue from its end
FlushCallsReversed(queue, fatal) ==
    [i \in 1..Len(queue) |->
        Settle(queue[Len(queue) + 1 - i],
               IF fatal.kind # "none" THEN fatal ELSE Resolved, TRUE)]

\* _flush_ready_queue: the settle calls of the forEach, in queue order
FlushCalls(queue, fatal) ==
    [i \in 1..Len(queue) |->
        Settle(queue[i], IF fatal.kind # "none" THEN fatal ELSE Resolved, TRUE)]

\* an executor without the in-flight test: whoever is not served at once waits
ReadyExitNoUsageTest(is_connected, fatal, flying) ==
    IF is_connected = TRUE THEN "resolve"
    ELSE IF fatal.kind # "none" THEN "reject_fatal"
    ELSE "queue"

\* an executor that looks at the stored error before the connection
ReadyExitFatalFirst(is_connected, fatal, flying) ==
    IF fatal.kind # "none" THEN "reject_fatal"
    ELSE IF is_connected = TRUE THEN "resolve"
    ELSE IF flying = FALSE THEN "reject_usage"
    ELSE "queue"

\* an executor that does not look at the connection
ReadyExitNoConnectedTest(is_connected, fatal, flying) ==
    IF fatal.kind # "none" THEN "reject_fatal"
    ELSE IF flying = FALSE THEN "reject_usage"
    ELSE "queue"

\* the executor of ready(): which of its four exits is taken
ReadyExit(is_connected, fatal, flying) ==
    IF is_connected = TRUE THEN "resolve"
    ELSE IF fatal.kind # "none" THEN "reject_fatal"
    ELSE IF flying = FALSE THEN "reject_usage"
    ELSE "queue"

\* ready() run on the given #connected, #fatal_error, #in_flight
ReadyOn(is_connected, fatal, flying) ==
    LET exit == ReadyExit(is_connected, fatal, flying)
    IN  /\ NextWaiter <= MaxCalls
        /\ IF exit = "queue"
           THEN /\ ready_queue' = Append(ready_queue, NextWaiter)
                /\ settled' = settled
           ELSE /\ ready_queue' = ready_queue
                /\ settled' = Append(settled,
                      Settle(NextWaiter,
                             CASE exit = "resolve" -> Resolved
                               [] exit = "reject_fatal" -> fatal
                               [] OTHER -> UsageError,
                             FALSE))

ready ==
    /\ ReadyOn(connected, fatal_error, in_flight)
    /\ UNCHANGED <<member_config, opened_at, orphans, connected, in_flight, fatal_error,
                   reconnect_attempts, ws, timers, m_out, last_ping,
                   heartbeat_duration, watchdogs, app_messages, m_in,
                   close_log, m_sent, send_results,
                   now>>

\* _create_ws_connection: mark in flight, drop the listeners of the old
\* transport, create the next one and bind the handlers to it
NewTransport == [id |-> ws.id + 1, state |-> "connecting"]

\* the live transports a member has dropped, after one more
\* _create_ws_connection: removeAllListeners() and #ws = null close nothing
Orphaned == IF ws.state \in {"connecting", "open"} THEN orphans + 1 ELSE orphans

\* a connect() that creates a transport whenever none is open
ConnectCreatesUnlessConnected == connected = FALSE

\* connect(): if (this.#in_flight === false) this._create_ws_connection()
ConnectCreates == in_flight = FALSE

connect ==
    /\ IF ConnectCreates
       THEN /\ ws.id < MaxWs
            /\ ws' = NewTransport
            /\ orphans' = Orphaned
            /\ in_flight' = TRUE
            /\ m_out' = <<>>
            /\ ReadyOn(connected, fatal_error, TRUE)
       ELSE /\ UNCHANGED <<ws, orphans, in_flight, m_out>>
            /\ ReadyOn(connected, fatal_error, in_flight)
    /\ UNCHANGED <<member_config, opened_at, connected, fatal_error, reconnect_attempts,
                   timers, last_ping, heartbeat_duration, watchdogs,
                   app_messages, m_in, close_log, m_sent, send_results,
                   now>>

\* the callback of the setTimeout of the close handler
ReconnectTimer ==
    /\ timers > 0
    /\ ws.id < MaxWs
    /\ timers' = timers - 1
    /\ ws' = NewTransport
    /\ orphans' = Orphaned
    /\ in_flight' = TRUE
    /\ m_out' = <<>>
    /\ UNCHANGED <<member_config, connected, fatal_error, reconnect_attempts,
                   ready_queue, last_ping, heartbeat_duration, watchdogs,
                   member_obs, now>>

\* the 'open' handler bound by _bind_ws_handlers
OnOpen ==
    /\ ws.state = "connecting"
    /\ ws' = [ws EXCEPT !.state = "open"]
    /\ connected' = TRUE
    /\ in_flight' = FALSE
    /\ opened_at' = now
    /\ settled' = settled \o FlushCalls(ready_queue, fatal_error)
    /\ ready_queue' = <<>>
    /\ reconnect_attempts' = 0
    /\ watchdogs' = watchdogs + 1
    /\ UNCHANGED <<member_config, orphans, fatal_error, timers, m_out, last_ping,
                   heartbeat_duration, app_messages, m_in, close_log,
                   m_sent, send_results,
                   now>>

\* a handler that echoes the token it received
PingReplyEcho == PING

\* the reply of the message handler to 'PING'
PingReply == PONG

\* #last_ping as #ws.send('PONG') finds it: Date.now() was assigned first
LastPingAtReply == now

\* the 'message' handler bound by _bind_ws_handlers
OnMessage(message) ==
    /\ ws.state = "open"
    /\ Len(m_in) < MaxIn
    /\ m_in' = Append(m_in, message)
    /\ CASE message = PING ->
              /\ last_ping' = now
              /\ m_out' = Append(m_out, PingReply)
              /\ m_sent' = Append(m_sent, [payload |-> PingReply,
                                           stamp |-> LastPingAtReply, at |-> now])
              /\ UNCHANGED <<heartbeat_duration, watchdogs, app_messages>>
         [] message.tag = "PROVIDER_HEARTBEAT|" ->
              /\ heartbeat_duration' = message.arg
              /\ watchdogs' = watchdogs + 1
              /\ UNCHANGED <<last_ping, m_out, m_sent, app_messages>>
         [] OTHER ->
              /\ app_messages' = Append(app_messages, message)
              /\ UNCHANGED <<last_ping, m_out, m_sent, heartbeat_duration,
                             watchdogs>>
    /\ UNCHANGED <<member_config, opened_at, orphans, connected, in_flight, fatal_error,
                   reconnect_attempts, ready_queue, ws, timers, settled,
                   close_log, send_results, now>>

\* a reconnect test that gives up one attempt early
RetryAllowedEarly == LessThan(Increment(reconnect_attempts), max_attempts)

\* the reconnect test of the close handler: policy is an object and
\* attempts < policy.max_attempts
RetryAllowed == LessThan(reconnect_attempts, max_attempts)

\* the 'close' handler bound by _bind_ws_handlers
OnClose ==
    /\ ws.state \in {"open", "closing"}
    /\ ws' = [ws EXCEPT !.state = "closed"]
    /\ connected' = FALSE
    /\ IF RetryAllowed
       THEN /\ reconnect_attempts' = Increment(reconnect_attempts)
            /\ timers' = timers + 1
            /\ close_log' = close_log
       ELSE /\ close_log' = Append(close_log, reconnect_attempts)
            /\ UNCHANGED <<reconnect_attempts, timers>>
    /\ UNCHANGED <<member_config, opened_at, orphans, in_flight, fatal_error, ready_queue, m_out,
                   last_ping, heartbeat_duration, watchdogs, settled,
                   app_messages, m_in, m_sent, send_results,
                   now>>

\* a classification that takes every error with a message for fatal
IsFatalAny(kind) == kind \in {"e403", "other"}

\* _handle_error_message: only 'Unexpected server response: 403' is fatal
IsFatal(kind) == kind = "e403"

\* a handler that leaves #reconnect_attempts as it is
FatalAttemptsKept == reconnect_attempts

\* what _handle_error_message stores in #reconnect_attempts for that error
FatalAttempts == Infinity

\* the 'error' handler bound by _bind_ws_handlers, with _handle_error_message
OnError(kind) ==
    /\ ws.state \in {"connecting", "open", "closing"}
    /\ kind = "e403" => ws.state = "connecting"
    /\ ws' = [ws EXCEPT !.state = "closing"]
    /\ IF kind # "empty" /\ IsFatal(kind)
       THEN /\ reconnect_attempts' = FatalAttempts
            /\ in_flight' = FALSE
            /\ fatal_error' = Rejection(ws.id)
            /\ settled' = settled \o FlushCalls(ready_queue, fatal_error')
            /\ ready_queue' = <<>>
       ELSE UNCHANGED <<reconnect_attempts, in_flight, fatal_error, settled,
                        ready_queue>>
    /\ UNCHANGED <<member_config, opened_at, orphans, connected, timers, m_out, last_ping,
                   heartbeat_duration, watchdogs, app_messages, m_in,
                   close_log, m_sent, send_results,
                   now>>

\* #ws.close() as destroy() calls it
CloseTransport(w) ==
    IF w.state \in {"connecting", "open"} THEN [w EXCEPT !.state = "closing"]
    ELSE w

\* Consumer.destroy(); with no transport yet, this.#ws.close() throws after
\* the three assignments before it
destroy ==
    /\ reconnect_attempts' = Infinity
    /\ in_flight' = FALSE
    /\ connected' = FALSE
    /\ IF ws.state = "none"
       THEN UNCHANGED <<ws, fatal_error, settled, ready_queue>>
       ELSE /\ ws' = CloseTransport(ws)
            /\ fatal_error' = Destroyed
            /\ settled' = settled \o FlushCalls(ready_queue, fatal_error')
            /\ ready_queue' = <<>>
    /\ UNCHANGED <<member_config, opened_at, orphans, timers, m_out, last_ping, heartbeat_duration,
                   watchdogs, app_messages, m_in, close_log, m_sent, send_results,
                   now>>

\* what send() of the ws package does with a string on a socket in the
\* given readyState: it hands the payload on when OPEN and throws when
\* CONNECTING; on a CLOSING or CLOSED socket it throws or drops the payload
\* without a word, depending on the release of the package
TransportSend(state) ==
    CASE state = "open" -> {"sent"}
      [] state = "connecting" -> {"throw"}
      [] OTHER -> {"throw", "dropped"}

\* the test send() makes before it touches the transport
SendRefused == connected = FALSE

\* Consumer.send(message) with a string
send(message) ==
    /\ Len(m_out) < MaxSends
    /\ IF SendRefused
       THEN /\ send_results' = send_results \cup
                   {[result |-> "false", connected |-> connected, state |-> ws.state]}
            /\ m_out' = m_out
       ELSE \E outcome \in TransportSend(ws.state) :
               /\ send_results' = send_results \cup
                      {[result |-> IF outcome = "throw" THEN "throw" ELSE "true",
                        connected |-> connected, state |-> ws.state]}
               /\ m_out' = IF outcome = "sent" THEN Append(m_out, message)
                           ELSE m_out
    /\ UNCHANGED <<member_config, opened_at, orphans, connected, in_flight, fatal_error,
                   reconnect_attempts, ready_queue, ws, timers, last_ping,
                   heartbeat_duration, watchdogs, settled, app_messages,
                   m_in, close_log, m_sent, now>>

\* the clock moves
Advance ==
    /\ now < MaxTime
    /\ now' = now + 1
    /\ UNCHANGED <<member_config, member_state, member_obs>>

\* time passes, far enough for a watchdog to find the hub silent
Elapse ==
    /\ now < MaxClock
    /\ now' = now + 1
    /\ UNCHANGED <<member_config, member_state, member_obs>>

\* #heartbeat_margin
HeartbeatMargin == 2

\* a test that closes already when the limit is reached
OverdueInclusive == now - last_ping >= heartbeat_duration * HeartbeatMargin

\* difference > max_duration in _check_heartbeat
Overdue == now - last_ping > heartbeat_duration * HeartbeatMargin

\* _check_heartbeat: one firing of an interval armed by _initiate_check_cycle
_check_heartbeat ==
    /\ watchdogs > 0
    /\ ws' = IF Overdue THEN CloseTransport(ws) ELSE ws
    /\ UNCHANGED <<member_config, orphans, connected, in_flight, fatal_error,
                   reconnect_attempts, ready_queue, timers, m_out, last_ping,
                   heartbeat_duration, watchdogs, member_obs, now>>

\* ================================================================== specs

\* ---- the state of a hub after construction
HubFresh ==
    /\ connections = <<>>
    /\ conn = [id \in ConnIds |-> NewConnection]
    /\ socket = [id \in ConnIds |-> "none"]
    /\ h_out = [id \in ConnIds |-> <<>>]
    /\ heartbeat_timer = TRUE
    /\ server_listening = TRUE
    /\ upgrade_result = [verdict |-> "none", handler_called |-> FALSE,
                         request |-> PlainRequest]
    /\ hub_fault = FALSE
    /\ since_ping = [id \in ConnIds |-> -1]
    /\ kill_ticks = {}
    /\ pong_at = -1
    /\ heard = <<>>

\* ---- the hub after construction with default auth options
InitHub ==
    /\ max_strikes \in 0..MaxStrikesOpt
    /\ hb_interval_ms = HbInterval
    /\ auth_parameters = NoParameters
    /\ auth_handler = "null"
    /\ error_handler = "default"
    /\ close_sync \in BOOLEAN
    /\ close_handler = "none"
    /\ message_listener = FALSE
    /\ HubFresh

\* ---- a hub whose upgrade gate is configured in any way
InitGate ==
    /\ max_strikes = 0
    /\ hb_interval_ms = HbInterval
    /\ auth_parameters \in AuthConfigs
    /\ auth_handler \in {"null", "function"}
    /\ error_handler \in {"default", "custom"}
    /\ close_sync = TRUE
    /\ close_handler = "none"
    /\ message_listener = FALSE
    /\ HubFresh

\* ---- a hub whose application listens to 'message'
InitHubHearing ==
    /\ max_strikes = 0
    /\ hb_interval_ms = HbInterval
    /\ auth_parameters = NoParameters
    /\ auth_handler = "null"
    /\ error_handler = "default"
    /\ close_sync = TRUE
    /\ close_handler = "none"
    /\ message_listener = TRUE
    /\ HubFresh

\* ---- a hub whose application listens to 'close' and ends the other peers
InitHubListening ==
    /\ max_strikes \in 0..MaxStrikesOpt
    /\ hb_interval_ms = HbInterval
    /\ auth_parameters = NoParameters
    /\ auth_handler = "null"
    /\ error_handler = "default"
    /\ close_sync \in BOOLEAN
    /\ close_handler = "end_peers"
    /\ message_listener = FALSE
    /\ HubFresh

\* ---- a member after construction
InitMember ==
    /\ max_attempts \in 0..MaxAttemptsOpt
    /\ connected = FALSE
    /\ in_flight = FALSE
    /\ fatal_error = NoError
    /\ reconnect_attempts = 0
    /\ ready_queue = <<>>
    /\ ws = [id |-> 0, state |-> "none"]
    /\ timers = 0
    /\ m_out = <<>>
    /\ last_ping = 0
    /\ heartbeat_duration = DefaultDuration
    /\ watchdogs = 0
    /\ orphans = 0
    /\ opened_at = -1
    /\ now = 0
    /\ settled = <<>>
    /\ app_messages = <<>>
    /\ m_in = <<>>
    /\ close_log = <<>>
    /\ m_sent = <<>>
    /\ send_results = {}

\* ---- no transport of the member has reached the hub
InitWire ==
    /\ peer = 0
    /\ late = FALSE

\* what a peer may send the hub
PeerPayloads == {PONG, PING} \cup AppPayloads

\* the hub alone, its peers being anything
NextHub ==
    \/ _on_connection_upgrade(PlainRequest) /\ UNCHANGED <<member_vars, wire_vars>>
    \/ \E id \in ConnIds : _on_connection_open(id) /\ UNCHANGED <<member_vars, wire_vars>>
    \/ \E id \in ConnIds, m \in PeerPayloads :
          _on_connection_message(id, m) /\ UNCHANGED <<member_vars, wire_vars>>
    \/ \E id \in ConnIds : _on_connection_close(id) /\ UNCHANGED <<member_vars, wire_vars>>
    \/ _perform_heartbeat_cycle /\ UNCHANGED <<member_vars, wire_vars>>
    \/ ProviderDestroy /\ UNCHANGED <<member_vars, wire_vars>>

\* the member plays no part: one of its initial states
InitHubAlone ==
    /\ InitHub
    /\ InitMember
    /\ InitWire
    /\ max_attempts = 0

SpecHub == InitHubAlone /\ [][NextHub]_vars

InitHubListeningAlone ==
    /\ InitHubListening
    /\ InitMember
    /\ InitWire
    /\ max_attempts = 0

\* the hub alone, with the 'close' listener that ends the other peers
SpecHubListening == InitHubListeningAlone /\ [][NextHub]_vars

\* the upgrade gate under any configuration and any request; what was
\* upgraded opens and closes
NextGate ==
    \/ \E req \in Requests :
          _on_connection_upgrade(req) /\ UNCHANGED <<member_vars, wire_vars>>
    \/ \E id \in ConnIds : _on_connection_open(id) /\ UNCHANGED <<member_vars, wire_vars>>
    \/ \E id \in ConnIds : _on_connection_close(id) /\ UNCHANGED <<member_vars, wire_vars>>

InitGateAlone ==
    /\ InitGate
    /\ InitMember
    /\ InitWire
    /\ max_attempts = 0

SpecGate == InitGateAlone /\ [][NextGate]_vars

\* what a hub may send the member
HubPayloads == {PING, PONG, Msg("PROVIDER_HEARTBEAT|", HbInterval)} \cup AppPayloads

\* the member alone, its caller and its transport being anything. The
\* payloads it receives are left to SpecMemberWire: the message handler
\* writes none of the variables the other handlers read.
NextMember ==
    \/ connect /\ UNCHANGED <<hub_vars, wire_vars>>
    \/ ready /\ UNCHANGED <<hub_vars, wire_vars>>
    \/ destroy /\ UNCHANGED <<hub_vars, wire_vars>>
    \/ ReconnectTimer /\ UNCHANGED <<hub_vars, wire_vars>>
    \/ OnOpen /\ UNCHANGED <<hub_vars, wire_vars>>
    \/ OnClose /\ UNCHANGED <<hub_vars, wire_vars>>
    \/ \E kind \in ErrorKinds : OnError(kind) /\ UNCHANGED <<hub_vars, wire_vars>>

\* the member on the wire: connections come and go, payloads arrive, the
\* clock moves
NextMemberWire ==
    \/ connect /\ UNCHANGED <<hub_vars, wire_vars>>
    \/ ReconnectTimer /\ UNCHANGED <<hub_vars, wire_vars>>
    \/ OnOpen /\ UNCHANGED <<hub_vars, wire_vars>>
    \/ OnClose /\ UNCHANGED <<hub_vars, wire_vars>>
    \/ \E m \in HubPayloads : OnMessage(m) /\ UNCHANGED <<hub_vars, wire_vars>>
    \/ Advance /\ UNCHANGED <<hub_vars, wire_vars>>

\* the member on the wire with its watchdogs firing
NextMemberWatched ==
    \/ connect /\ UNCHANGED <<hub_vars, wire_vars>>
    \/ OnOpen /\ UNCHANGED <<hub_vars, wire_vars>>
    \/ OnClose /\ UNCHANGED <<hub_vars, wire_vars>>
    \/ \E m \in HubPayloads : OnMessage(m) /\ UNCHANGED <<hub_vars, wire_vars>>
    \/ Elapse /\ UNCHANGED <<hub_vars, wire_vars>>
    \/ _check_heartbeat /\ UNCHANGED <<hub_vars, wire_vars>>

\* a hub and a member on its first transport, each receiving whatever its
\* peers may send
NextTokens ==
    \/ _on_connection_upgrade(PlainRequest) /\ UNCHANGED <<member_vars, wire_vars>>
    \/ \E id \in ConnIds : _on_connection_open(id) /\ UNCHANGED <<member_vars, wire_vars>>
    \/ \E id \in ConnIds, m \in PeerPayloads :
          _on_connection_message(id, m) /\ UNCHANGED <<member_vars, wire_vars>>
    \/ \E id \in ConnIds : _on_connection_close(id) /\ UNCHANGED <<member_vars, wire_vars>>
    \/ ws.id = 0 /\ connect /\ UNCHANGED <<hub_vars, wire_vars>>
    \/ OnOpen /\ UNCHANGED <<hub_vars, wire_vars>>
    \/ \E m \in HubPayloads : OnMessage(m) /\ UNCHANGED <<hub_vars, wire_vars>>

InitTokens ==
    /\ InitHubHearing
    /\ InitMember
    /\ InitWire
    /\ max_attempts = 0

SpecTokens == InitTokens /\ [][NextTokens]_vars

\* the member with a reconnect policy, on the wire, its watchdogs firing;
\* the application calls connect() once and every later attempt is the
\* reconnect policy's
NextMemberRewatched ==
    \/ ws.id = 0 /\ connect /\ UNCHANGED <<hub_vars, wire_vars>>
    \/ ReconnectTimer /\ UNCHANGED <<hub_vars, wire_vars>>
    \/ OnOpen /\ UNCHANGED <<hub_vars, wire_vars>>
    \/ OnClose /\ UNCHANGED <<hub_vars, wire_vars>>
    \/ \E m \in HubPayloads : OnMessage(m) /\ UNCHANGED <<hub_vars, wire_vars>>
    \/ Elapse /\ UNCHANGED <<hub_vars, wire_vars>>
    \/ _check_heartbeat /\ UNCHANGED <<hub_vars, wire_vars>>

\* the hub plays no part: one of its initial states
InitMemberAlone ==
    /\ InitHub
    /\ max_strikes = 0
    /\ close_sync = TRUE
    /\ InitMember
    /\ InitWire

SpecMember == InitMemberAlone /\ [][NextMember]_vars

SpecMemberWire == InitMemberAlone /\ [][NextMemberWire]_vars

\* what the event loop and the network do sooner or later: a transport that
\* is closing emits 'close', a reconnect timer that is pending fires, an
\* attempt that is connecting opens or fails. The calls of the application
\* (connect, ready, destroy) may never come.
FairMember ==
    /\ WF_vars(OnClose /\ UNCHANGED <<hub_vars, wire_vars>>)
    /\ WF_vars(ReconnectTimer /\ UNCHANGED <<hub_vars, wire_vars>>)
    /\ WF_vars(/\ ws.state = "connecting"
               /\ \/ OnOpen
                  \/ \E kind \in ErrorKinds : OnError(kind)
               /\ UNCHANGED <<hub_vars, wire_vars>>)

SpecMemberFair == InitMemberAlone /\ [][NextMember]_vars /\ FairMember

\* a member without a reconnect policy
InitMemberWatched ==
    /\ InitMemberAlone
    /\ max_attempts = 0

SpecMemberWatched == InitMemberWatched /\ [][NextMemberWatched]_vars

\* a member with a reconnect policy of one attempt
InitMemberRewatched ==
    /\ InitMemberAlone
    /\ max_attempts = 1

SpecMemberRewatched == InitMemberRewatched /\ [][NextMemberRewatched]_vars

\* the member and an application that sends: connections come and go, by
\* the transport, by the reconnect policy and by further connect() calls
NextMemberSend ==
    \/ connect /\ UNCHANGED <<hub_vars, wire_vars>>
    \/ ReconnectTimer /\ UNCHANGED <<hub_vars, wire_vars>>
    \/ OnOpen /\ UNCHANGED <<hub_vars, wire_vars>>
    \/ OnClose /\ UNCHANGED <<hub_vars, wire_vars>>
    \/ \E kind \in ErrorKinds : OnError(kind) /\ UNCHANGED <<hub_vars, wire_vars>>
    \/ \E m \in AppPayloads : send(m) /\ UNCHANGED <<hub_vars, wire_vars>>

SpecMemberSend == InitMemberAlone /\ [][NextMemberSend]_vars

\* ---- one member and the hub, joined by a network that neither loses nor
\* reorders payloads and drops no connection on its own
hub_rest == <<hub_config, connections, conn, socket, heartbeat_timer,
              server_listening, upgrade_result, hub_fault, hub_obs>>
member_rest == <<member_config, orphans, connected, in_flight, fatal_error,
                 reconnect_attempts, ready_queue, ws, timers, last_ping,
                 heartbeat_duration, watchdogs, member_obs, now>>

\* the upgrade request of a member with the default options.parameters ({})
MemberRequest == PlainRequest

\* a new transport of the member has not reached the hub yet
Unlinked ==
    /\ peer' = IF ws'.id # ws.id THEN 0 ELSE peer
    /\ late' = IF ws'.id # ws.id THEN FALSE ELSE late

\* the application calls connect() once; every later attempt is the
\* reconnect policy's
PairConnect ==
    /\ ws.id = 0
    /\ connect
    /\ Unlinked
    /\ UNCHANGED hub_vars

PairReconnectTimer ==
    /\ ReconnectTimer
    /\ Unlinked
    /\ UNCHANGED hub_vars

\* the request of the member's transport reaches the upgrade gate
PairUpgrade ==
    /\ ws.state = "connecting"
    /\ peer = 0
    /\ _on_connection_upgrade(MemberRequest)
    /\ peer' = IF UpgradeVerdict(MemberRequest).verdict = "upgraded"
               THEN FreshId ELSE 0
    /\ UNCHANGED <<member_vars, late>>

PairHubOpen ==
    /\ \E id \in ConnIds : _on_connection_open(id)
    /\ UNCHANGED <<member_vars, wire_vars>>

\* the member learns of the upgrade after the hub has opened its side
PairMemberOpen ==
    /\ peer # 0
    /\ socket[peer] # "upgraded"
    /\ OnOpen
    /\ UNCHANGED <<hub_vars, wire_vars>>

\* the oldest payload of the hub arrives at the member
PairToMember ==
    /\ peer # 0
    /\ h_out[peer] # <<>>
    /\ OnMessage(Head(h_out[peer]))
    /\ h_out' = [h_out EXCEPT ![peer] = Tail(@)]
    /\ UNCHANGED <<hub_rest, wire_vars>>

\* the oldest payload of the member arrives at the hub
PairToHub ==
    /\ peer # 0
    /\ m_out # <<>>
    /\ _on_connection_message(peer, Head(m_out))
    /\ m_out' = Tail(m_out)
    /\ UNCHANGED <<member_rest, wire_vars>>

\* a PING to the member's transport, or the member's reply, is on the wire
OnTheWire ==
    /\ peer # 0
    /\ socket[peer] = "open"
    /\ (PING \in Range(h_out[peer]) \/ m_out # <<>>)

PairTick ==
    /\ _perform_heartbeat_cycle
    /\ late' = (late \/ OnTheWire)
    /\ UNCHANGED <<member_vars, peer>>

\* the close the hub asked for with end() completes on the hub
PairHubClose ==
    /\ \E id \in ConnIds : socket[id] = "ended" /\ _on_connection_close(id)
    /\ UNCHANGED <<member_vars, wire_vars>>

\* the member learns that the hub closed the connection
PairMemberClose ==
    /\ peer # 0
    /\ socket[peer] \in {"ended", "closed"}
    /\ OnClose
    /\ UNCHANGED <<hub_vars, wire_vars>>

NextPair ==
    \/ PairConnect
    \/ PairReconnectTimer
    \/ PairUpgrade
    \/ PairHubOpen
    \/ PairMemberOpen
    \/ PairToMember
    \/ PairToHub
    \/ PairTick
    \/ PairHubClose
    \/ PairMemberClose

InitPair ==
    /\ InitHub
    /\ InitMember
    /\ InitWire

SpecPair == InitPair /\ [][NextPair]_vars

\* ============================================================ properties

\* ---------------------------------------------------------------- SpecHub

\* C1: whatever max_strikes = k >= 0 is, a tracked connection that stops
\* answering PING is force-closed by the heartbeat cycle exactly on the
\* (k+1)-th cycle after the cycle that sent the PING: every force-close
\* happened on that cycle, and no open connection outlives it (an open
\* connection with an unanswered PING has gone through at most k cycles
\* since).
C1_ClosedOnCycleKPlusOne ==
    /\ \A t \in kill_ticks : t = max_strikes + 1
    /\ \A id \in ConnIds :
          (socket[id] = "open" /\ since_ping[id] >= 0)
              => since_ping[id] <= max_strikes

\* a connection was force-closed under the largest max_strikes
C1_Witness ==
    /\ max_strikes = MaxStrikesOpt
    /\ kill_ticks # {}

\* C2: a PONG received while the connection has s < max_strikes strikes sets
\* strikes to 0 and alive to true, so the cycle that follows neither strikes
\* nor closes it; and PONG is the only event that lowers strikes or sets
\* alive to true on a connection that stays open.
C2_PongResets ==
    [][\A id \in ConnIds :
          socket[id] = "open" =>
            /\ _on_connection_message(id, PONG)
                  => (conn'[id].strikes = 0 /\ conn'[id].alive = TRUE)
            /\ (_perform_heartbeat_cycle /\ conn[id].alive = TRUE)
                  => (conn'[id].strikes = conn[id].strikes /\ socket'[id] = "open")
            /\ ( /\ socket'[id] = "open"
                 /\ \/ conn'[id].strikes < conn[id].strikes
                    \/ (conn[id].alive = FALSE /\ conn'[id].alive = TRUE) )
                  => _on_connection_message(id, PONG)]_vars

\* a PONG arrived at 1 <= s < max_strikes strikes and left a connection alive
\* with no strikes
C2_Witness ==
    /\ pong_at >= 1
    /\ pong_at < max_strikes
    /\ \E id \in ConnIds :
          socket[id] = "open" /\ conn[id].alive = TRUE /\ conn[id].strikes = 0

\* C17: the connections map holds exactly the connections whose transport
\* has opened and whose close event has not been delivered yet, each once:
\* none initially, none that is only upgraded, none that has closed, whoever
\* closed it; and deleting an id the map does not hold changes nothing.
C17_PoolIsOpenConnections ==
    /\ Range(connections) = {id \in ConnIds : socket[id] \in {"open", "ended"}}
    /\ Len(connections) = Cardinality(Range(connections))
    /\ \A id \in ConnIds \ Range(connections) :
          PoolWithout(connections, id) = connections

\* one connection was evicted by the cycle and its close was delivered, a
\* second has been ended and still waits for its close event
C17_Witness ==
    /\ kill_ticks # {}
    /\ \E a, b \in ConnIds :
          /\ socket[a] = "closed"
          /\ socket[b] = "ended"
          /\ connections = <<b>>

\* ---------------------------------------------------------------- SpecGate

\* the last request went as far as the auth handler
HandlerAsked == upgrade_result.verdict # "none" /\ upgrade_result.handler_called

\* the last request fails the configured parameter map: some configured key
\* is missing from the query or differs from the configured value
FailsParameters ==
    /\ upgrade_result.verdict # "none"
    /\ auth_parameters.configured
    /\ \E key \in DOMAIN auth_parameters.map :
          \/ key \notin DOMAIN upgrade_result.request.query
          \/ upgrade_result.request.query[key] # auth_parameters.map[key]

\* the last request got past the parameter check: it was upgraded, or the
\* auth handler was asked about it
PassedParameters == upgrade_result.verdict = "upgraded" \/ upgrade_result.handler_called

\* C21: when the auth handler is asked, the upgrade continues only if it
\* resolved to true; any other result, a throw included, ends in the 403
\* exit and no exception leaves the gate, whatever error handler is installed.
C21_HandlerGate ==
    HandlerAsked =>
        IF upgrade_result.request.handler_result = "true"
        THEN upgrade_result.verdict = "upgraded"
        ELSE upgrade_result.verdict = "rejected"

\* C22: with a parameter map configured, a request passes the parameter check
\* exactly when every configured key is present in its query with a value
\* strictly equal (type and text) to the configured one; a missing or a
\* differing key rejects it; keys of the query that are not configured do not
\* matter.
C22_ParametersStrict ==
    (upgrade_result.verdict # "none" /\ auth_parameters.configured) =>
        /\ FailsParameters => ~PassedParameters /\ upgrade_result.verdict = "rejected"
        /\ ~FailsParameters => PassedParameters

\* a request with a parameter the map does not name was let through
C22_Witness ==
    /\ auth_parameters.configured
    /\ DOMAIN auth_parameters.map = {"key"}
    /\ DOMAIN upgrade_result.request.query = {"key", "extra"}
    /\ upgrade_result.verdict = "upgraded"

\* C23: a request that took the 403 exit leaves the hub as it was: no
\* connection id is taken, no socket is upgraded, the pool and the connection
\* records are unchanged and nothing is sent to any peer.
C23_RejectedLeavesNoTrace ==
    [][((\E req \in Requests : _on_connection_upgrade(req))
          /\ upgrade_result'.verdict = "rejected")
        => /\ UNCHANGED <<socket, conn, connections, h_out>>
           /\ FreeIds' = FreeIds]_vars

\* a request was rejected while a free id and an open connection existed
C23_Witness ==
    /\ upgrade_result.verdict = "rejected"
    /\ FreeIds # {}
    /\ \E id \in ConnIds : socket[id] = "open"

\* C26: the parameter check comes before the auth handler: a request that
\* fails the configured parameter map is never shown to the handler.
C26_ParametersFirst == FailsParameters => ~upgrade_result.handler_called

\* a handler is configured and a request failing the map was rejected
C26_Witness ==
    /\ auth_handler = "function"
    /\ FailsParameters
    /\ upgrade_result.verdict = "rejected"

\* the tick of this step sent a PING to the connection
PingedNow(id) ==
    /\ Len(h_out'[id]) = Len(h_out[id]) + 1
    /\ h_out'[id][Len(h_out'[id])] = PING

\* C36: a heartbeat tick sends PING to a tracked connection exactly when its
\* alive flag is true, and clears the flag in the same step; it sends none
\* to a connection that has a PING unanswered since its last PONG; and it
\* never both pings and strikes a connection.
C36_OnePingOutstanding ==
    [][_perform_heartbeat_cycle =>
          \A id \in Range(connections) :
              /\ PingedNow(id) <=> conn[id].alive
              /\ PingedNow(id) =>
                     /\ ~conn'[id].alive
                     /\ since_ping[id] = -1
                     /\ conn'[id].strikes = conn[id].strikes
              /\ ~PingedNow(id) => h_out'[id] \in {h_out[id], <<>>} ]_vars

\* a connection with one PING unanswered went through a later tick, which
\* struck it and sent no second PING
C36_Witness ==
    \E id \in ConnIds :
        /\ socket[id] = "open"
        /\ conn[id].strikes >= 1
        /\ since_ping[id] >= 1
        /\ Len(SelectSeq(h_out[id], LAMBDA m : m = PING)) = 1

\* C37: every connection in the pool has between 0 and max_strikes strikes,
\* and has strikes only while its alive flag is false.
C37_StrikesInRange ==
    \A id \in Range(connections) :
        /\ 0 <= conn[id].strikes
        /\ conn[id].strikes <= max_strikes
        /\ conn[id].strikes > 0 => ~conn[id].alive

\* a tracked connection holds the largest number of strikes there is
C37_Witness ==
    /\ max_strikes = MaxStrikesOpt
    /\ \E id \in Range(connections) :
          /\ conn[id].strikes = max_strikes
          /\ ~conn[id].alive

\* C31: destroy() leaves no connection of the pool open and cancels the
\* heartbeat timer; after it no step sends a PING, adds a strike or is a kill
\* of the cycle; and once no close event of an ended socket is outstanding,
\* the pool is empty.
C31_DestroyEndsAll ==
    [][ /\ ProviderDestroy =>
              /\ \A id \in Range(connections) : socket'[id] # "open"
              /\ ~heartbeat_timer'
        /\ ~server_listening =>
              /\ ~heartbeat_timer'
              /\ \A id \in ConnIds :
                     /\ conn'[id].strikes <= conn[id].strikes
                     /\ Len(h_out'[id]) > Len(h_out[id]) =>
                            h_out'[id][Len(h_out'[id])] # PING
              /\ kill_ticks' = kill_ticks
        /\ (~server_listening' /\ \A id \in ConnIds : socket'[id] # "ended") =>
              connections' = <<>> ]_vars

\* -------------------------------------------------------------- SpecTokens

\* the payloads of a log that are no control token for the member
MemberForwarded(log) ==
    SelectSeq(log, LAMBDA m : m # PING /\ m.tag # "PROVIDER_HEARTBEAT|")

\* C32: the hub's message handler calls the 'message' listener never for a
\* PONG and exactly once, with the connection and the payload as received,
\* for any other payload; the 'message' events the member emitted are the
\* payloads it received that are neither PING nor an announcement, each once,
\* as received and in the order of arrival.
C32_ControlTokensIntercepted ==
    [][ /\ \A id \in ConnIds, m \in PeerPayloads :
              _on_connection_message(id, m) =>
                  heard' = IF m = PONG THEN <<>>
                           ELSE <<[ws |-> id, message |-> m]>>
        /\ app_messages' = MemberForwarded(m_in') ]_vars

\* the hub was handed an application payload after a PONG, the member an
\* application payload and a PING
C32_Witness ==
    /\ heard = <<[ws |-> 1, message |-> Msg("APP", 1)]>>
    /\ m_in = <<PING, Msg("APP", 1)>>
    /\ app_messages = <<Msg("APP", 1)>>

\* -------------------------------------------------------- SpecHubListening

\* C25: a heartbeat tick never raises, also when an id of its snapshot left
\* the pool before the tick reached it (the close callback of a connection
\* the tick ended ran inside end() and its 'close' listener ended others):
\* the tick passes over that id and still pings every connection that is in
\* the pool after it and was alive before it.
C25_TickToleratesRemoval ==
    [][_perform_heartbeat_cycle =>
          /\ hub_fault' = hub_fault
          /\ \A id \in Range(connections) \cap Range(connections') :
                 conn[id].alive => ~conn'[id].alive]_vars

\* ------------------------------------------------------------- SpecMember

\* C4: on a member on which connect() was never called (it has created no
\* transport), every ready() call so far failed at once with the usage error
\* and none was enqueued.
C4_ReadyBeforeConnect ==
    ws.id = 0 =>
        /\ ready_queue = <<>>
        /\ \A i \in 1..Len(settled) : settled[i] = Settle(i, UsageError, FALSE)

\* ready() was called twice before any connect()
C4_Witness ==
    /\ ws.id = 0
    /\ Len(settled) >= 2

\* C5: after a fatal rejection every ready() caller fails with the stored
\* error: the step that stores it rejects every queued waiter with it, in
\* queue order, and empties the queue; and while that error is stored, every
\* promise settled is rejected with it and no caller is enqueued.
C5_AllFailAfterRejection ==
    [][ /\ (fatal_error'.kind = "e403" /\ fatal_error' # fatal_error) =>
              /\ ready_queue' = <<>>
              /\ settled' = settled \o
                     [i \in 1..Len(ready_queue) |->
                         Settle(ready_queue[i], fatal_error', TRUE)]
        /\ (fatal_error.kind = "e403" /\ fatal_error' = fatal_error) =>
              /\ ready_queue' = <<>>
              /\ \A i \in (Len(settled) + 1)..Len(settled') :
                     settled'[i].how = fatal_error ]_vars

\* C6: the transport open resolves every queued waiter successfully, in
\* enqueue order, and leaves the queue empty; no waiter is ever settled twice
\* and no settled waiter is still queued.
C6_OpenFlushesInOrder ==
    [][ /\ OnOpen =>
              /\ ready_queue' = <<>>
              /\ settled' = settled \o
                     [i \in 1..Len(ready_queue) |->
                         Settle(ready_queue[i], Resolved, TRUE)]
              /\ \A i, j \in 1..Len(ready_queue) :
                     i < j => ready_queue[i] < ready_queue[j]
        /\ \A i, j \in 1..Len(settled') :
              settled'[i].w = settled'[j].w => i = j
        /\ \A i \in 1..Len(settled'), k \in 1..Len(ready_queue') :
              settled'[i].w # ready_queue'[k] ]_vars

\* an open resolved two queued waiters, the earlier one first
C6_Witness ==
    /\ connected
    /\ \E i, j \in 1..Len(settled) :
          /\ j = i + 1
          /\ settled[i].queued /\ settled[j].queued
          /\ settled[i].how = Resolved /\ settled[j].how = Resolved
          /\ settled[i].w < settled[j].w

\* C7: a transport close at reconnect_attempts = max_attempts schedules no
\* retry and emits 'close'; and once such a close has happened no reconnect
\* timer opens a transport connection any more.
C7_StopsAtMaxAttempts ==
    [][ /\ (OnClose /\ reconnect_attempts = max_attempts) =>
              /\ timers' = timers
              /\ close_log' = Append(close_log, reconnect_attempts)
        /\ (\E i \in 1..Len(close_log) : close_log[i] = max_attempts) =>
              ~ReconnectTimer ]_vars

\* C8: the fatal rejection stores Infinity in reconnect_attempts, and in no
\* state where the rejection error is stored does a transport close schedule
\* a retry.
C8_NoRetryAfterRejection ==
    [][ /\ OnError("e403") => reconnect_attempts' = Infinity
        /\ (fatal_error.kind = "e403" /\ OnClose) => timers' = timers ]_vars

\* C10: when the member's connection attempt is rejected (403), the promises
\* that waited for it are rejected with the rejection error, connected is
\* false, and no retry is pending: no reconnect timer exists that could make
\* a second attempt.
C10_RejectedConnect ==
    (ws.id = 1 /\ fatal_error = Rejection(1)) =>
        /\ connected = FALSE
        /\ timers = 0
        /\ ready_queue = <<>>
        /\ \E i \in 1..Len(settled) : settled[i].queued
        /\ \A i \in 1..Len(settled) :
              settled[i].queued => settled[i].how = Rejection(1)

\* the rejected attempt has closed and the connect() promise is rejected
C10_Witness ==
    /\ ws = [id |-> 1, state |-> "closed"]
    /\ fatal_error = Rejection(1)
    /\ \E i \in 1..Len(settled) :
          settled[i].queued /\ settled[i].how = Rejection(1)

\* C11: the close of a connected member's transport at reconnect_attempts <
\* max_attempts arms a reconnect timer and counts the attempt; the timer opens
\* a new transport attempt with no call by the application (no promise is
\* created or settled by it); and an attempt that opens sets connected and
\* resets reconnect_attempts to 0.
C11_ReconnectsByItself ==
    [][ /\ ( /\ OnClose
             /\ connected = TRUE
             /\ reconnect_attempts # Infinity
             /\ reconnect_attempts < max_attempts ) =>
              /\ timers' = timers + 1
              /\ reconnect_attempts' = reconnect_attempts + 1
              /\ connected' = FALSE
        /\ timers' < timers =>
              /\ ws' = [id |-> ws.id + 1, state |-> "connecting"]
              /\ in_flight' = TRUE
              /\ timers' = timers - 1
              /\ UNCHANGED <<settled, ready_queue>>
        /\ (ws.state = "connecting" /\ ws'.state = "open") =>
              /\ connected' = TRUE
              /\ reconnect_attempts' = 0 ]_vars

\* after one connect() the transport closed, the timer made the second
\* attempt and it opened: no other call was made on the member
C11_Witness ==
    /\ ws = [id |-> 2, state |-> "open"]
    /\ connected = TRUE
    /\ reconnect_attempts = 0
    /\ timers = 0
    /\ Len(settled) = 1
    /\ ready_queue = <<>>
    /\ fatal_error = NoError

\* C14: in every reachable state of a member, connected and in_flight are
\* not both true.
C14_ConnectedXorInFlight == ~(connected = TRUE /\ in_flight = TRUE)

\* the transports of the member that are connecting or open
LiveTransports == orphans + (IF ws.state \in {"connecting", "open"} THEN 1 ELSE 0)

\* C34: a member has at most one transport connecting or open at any time.
C34_OneLiveTransport == LiveTransports <= 1

\* C38: whenever the ready queue is not empty, the member is in flight, not
\* connected, and has no fatal error stored.
C38_QueueOnlyInFlight ==
    ready_queue # <<>> =>
        /\ in_flight = TRUE
        /\ connected = FALSE
        /\ fatal_error = NoError

\* two callers wait for an attempt made after the first transport
C38_Witness ==
    /\ Len(ready_queue) >= 2
    /\ ws.id >= 2
    /\ ws.state = "connecting"

\* C39: destroy() on a member that has created no transport runs to its end:
\* after it the member is not connected, not in flight and holds the
\* 'Instance Destroyed' error, which every later ready() fails with.
C39_DestroyBeforeConnect ==
    [][(destroy /\ ws.id = 0) =>
          /\ connected' = FALSE
          /\ in_flight' = FALSE
          /\ fatal_error' = Destroyed]_vars

\* C15: once the member is destroyed, no reconnect timer creates a transport
\* connection: a step that creates one is a connect() call of the
\* application.
C15_NoAttemptAfterDestroy ==
    [][ fatal_error = Destroyed => (ws'.id = ws.id \/ connect) ]_vars

\* C16: destroy() rejects every queued waiter with 'Instance Destroyed', once
\* each and in queue order, and leaves the queue empty; and every ready()
\* call on a destroyed member is rejected at once with that error.
C16_DestroyFailsWaiters ==
    [][ /\ destroy =>
              /\ ready_queue' = <<>>
              /\ settled' = settled \o
                     [i \in 1..Len(ready_queue) |->
                         Settle(ready_queue[i], Destroyed, TRUE)]
        /\ (fatal_error = Destroyed /\ ready) =>
              settled' = Append(settled, Settle(NextWaiter, Destroyed, FALSE)) ]_vars

\* C18: the member emits 'close' at most once (counted here on a member
\* that was neither rejected nor destroyed, whose listeners are all in
\* place); it emits it only in a transport close that arms no reconnect
\* timer, and a close that arms one does not emit it.
C18_CloseEmittedOnce ==
    [][ /\ fatal_error' = NoError => Len(close_log') <= 1
        /\ Len(close_log') > Len(close_log) => (OnClose /\ timers' = timers)
        /\ timers' > timers => close_log' = close_log ]_vars

\* C20: once the fatal error of a rejection is stored, every connect() call
\* is rejected at once with the stored error: its promise is neither enqueued
\* nor resolved.
C20_ConnectFailsFast ==
    [][ (fatal_error.kind = "e403" /\ connect) =>
            /\ settled' = Append(settled, Settle(NextWaiter, fatal_error, FALSE))
            /\ ready_queue' = ready_queue ]_vars

\* the promise of the ready() call of this step: settled at once with the
\* given outcome, the queue untouched
SettledAtOnce(how) ==
    /\ ready_queue' = ready_queue
    /\ settled' = Append(settled, Settle(NextWaiter, how, FALSE))

\* C24: ready() looks at connected first, then at the stored fatal error,
\* then at in_flight, and enqueues last: a connected member's ready()
\* succeeds at once without enqueuing, a fatal error stored or not; a
\* member not connected fails with the stored error if there is one, with
\* the usage error if it is not in flight, and is enqueued otherwise.
C24_ReadyOrder ==
    [][ready =>
          IF connected THEN SettledAtOnce(Resolved)
          ELSE IF fatal_error # NoError THEN SettledAtOnce(fatal_error)
          ELSE IF ~in_flight THEN SettledAtOnce(UsageError)
          ELSE /\ ready_queue' = Append(ready_queue, NextWaiter)
               /\ settled' = settled]_vars

\* a caller was failed with the stored error and the next one, on the
\* member connected again, succeeded at once with the error still stored
C24_Witness ==
    /\ connected
    /\ fatal_error # NoError
    /\ Len(settled) >= 2
    /\ settled[Len(settled) - 1].how = fatal_error
    /\ settled[Len(settled)] = Settle(Len(settled), Resolved, FALSE)

\* C28: once connect() has been called (a transport was created), no ready()
\* call fails with the usage error, whatever happened since.
C28_UsageOnlyBeforeConnect ==
    [][(ready /\ ws.id > 0) => ~SettledAtOnce(UsageError)]_vars

\* C29: an 'error' event that is not the 403 rejection leaves connected,
\* in_flight, fatal_error, reconnect_attempts and the ready queue as they
\* are and settles no waiter.
C29_OnlyRejectionChangesState ==
    [][(\E kind \in ErrorKinds \ {"e403"} : OnError(kind)) =>
          UNCHANGED <<connected, in_flight, fatal_error, reconnect_attempts,
                      ready_queue, settled>>]_vars

\* a transport failed with another error while a waiter was queued: the
\* waiter is still queued and the member still in flight
C29_Witness ==
    /\ ws.state = "closing"
    /\ ready_queue # <<>>
    /\ in_flight
    /\ fatal_error = NoError

\* ---------------------------------------------------------- SpecMemberFair

\* C33: every waiter that is in the ready queue of a member whose retries
\* were not switched off by destroy() or a rejection is settled sooner or
\* later (or the member has used up the transports the model gives it).
C33_EverySettled ==
    \A w \in 1..MaxCalls :
        (w \in Range(ready_queue) /\ reconnect_attempts # Infinity)
            ~> (w \notin Range(ready_queue) \/ ws.id = MaxWs)

\* --------------------------------------------------------------- SpecPair

\* C3: a member that stays connected and has answered every PING before the
\* next heartbeat cycle ran is never force-closed: its connection is open on
\* the hub and is in the connections map.
C3_ResponsiveMemberKept ==
    (peer # 0 /\ ws.state = "open" /\ ~late) =>
        /\ socket[peer] = "open"
        /\ peer \in Range(connections)

\* under max_strikes = 0 the member answered a PING, and the cycle that
\* followed sent the next PING instead of closing the connection
C3_Witness ==
    /\ max_strikes = 0
    /\ peer # 0 /\ ws.state = "open" /\ ~late
    /\ PING \in Range(m_in)
    /\ pong_at = 0
    /\ since_ping[peer] = 0

\* the announcements a log of payloads holds
Announcements(log) == SelectSeq(log, LAMBDA m : m.tag = "PROVIDER_HEARTBEAT|")

\* C12: the hub sends the announcement with its heartbeat interval in the
\* step that opens and registers a connection, and in no other step, so once
\* per connection; once the member has received one, its heartbeat_duration
\* is the hub's interval, and no announcement reaches the 'message' handler.
C12_AnnouncedOnce ==
    [][ /\ \A id \in ConnIds :
              /\ (socket[id] = "upgraded" /\ socket'[id] = "open") =>
                    /\ h_out'[id] = Append(h_out[id],
                                           Msg("PROVIDER_HEARTBEAT|", hb_interval_ms))
                    /\ id \in Range(connections')
              /\ Len(Announcements(h_out'[id])) > Len(Announcements(h_out[id])) =>
                    (socket[id] = "upgraded" /\ socket'[id] = "open")
        /\ Announcements(m_in') # <<>> =>
              /\ heartbeat_duration' = hb_interval_ms
              /\ Announcements(app_messages') = <<>> ]_vars

\* the member received the announcement of its second connection; the
\* interval it holds is the hub's and not its own default
C12_Witness ==
    /\ Len(Announcements(m_in)) = 2
    /\ ws = [id |-> 2, state |-> "open"]
    /\ heartbeat_duration = hb_interval_ms
    /\ heartbeat_duration # DefaultDuration
    /\ app_messages = <<>>

\* C13: at most one watchdog interval of the member is armed at any time.
C13_OneWatchdog == watchdogs <= 1

\* ------------------------------------------------ SpecMemberWire (connect)

\* C27: connect() on a member in flight creates no transport and leaves the
\* connection state of the member as it is; all it does is what ready()
\* does for the promise it returns. On a member not in flight it creates
\* exactly one transport, the next one, and sets in_flight.
C27_ConnectSingleFlight ==
    [][connect =>
          /\ IF in_flight
             THEN UNCHANGED <<ws, in_flight, m_out>>
             ELSE /\ ws' = [id |-> ws.id + 1, state |-> "connecting"]
                  /\ in_flight' = TRUE
          /\ UNCHANGED <<connected, fatal_error, reconnect_attempts, timers,
                         last_ping, heartbeat_duration, watchdogs>>
          /\ Len(settled') + Len(ready_queue') = Len(settled) + Len(ready_queue) + 1]_vars

\* connect() was called twice and one transport was created
C27_Witness ==
    /\ ws = [id |-> 1, state |-> "connecting"]
    /\ in_flight
    /\ Len(ready_queue) = 2

\* ------------------------------------------------------ SpecMemberWatched

\* C30: a firing of the watchdog closes the member's transport if and only
\* if the time since #last_ping is strictly more than twice the heartbeat
\* duration; a firing within that limit changes nothing, and a firing never
\* changes anything but the transport.
C30_WatchdogClosesWhenOverdue ==
    [][_check_heartbeat =>
          /\ (now - last_ping > 2 * heartbeat_duration
                 /\ ws.state \in {"connecting", "open"})
               => ws' = [id |-> ws.id, state |-> "closing"]
          /\ now - last_ping <= 2 * heartbeat_duration => ws' = ws
          /\ UNCHANGED <<member_config, orphans, connected, in_flight, fatal_error,
                         reconnect_attempts, ready_queue, timers, m_out,
                         last_ping, heartbeat_duration, watchdogs, member_obs,
                         now>>]_vars

\* a watchdog closed the open transport of a member that heard no PING for
\* more than twice the duration the hub announced
C30_Witness ==
    /\ ws.state = "closing"
    /\ connected
    /\ heartbeat_duration = HbInterval
    /\ now - last_ping > 2 * heartbeat_duration

\* ---------------------------------------------------- SpecMemberRewatched

\* C35: a watchdog does not close a transport that the reconnect policy
\* opened before twice the heartbeat duration has passed since it opened; in
\* particular not within the first interval after the open, when the hub's
\* first PING to it may still be to come.
C35_WatchdogSparesNewConnection ==
    [][(/\ _check_heartbeat
        /\ ws.id > 1 /\ ws.state = "open" /\ ws'.state = "closing"
        /\ now - opened_at < HbInterval)
          => now - opened_at >= heartbeat_duration * HeartbeatMargin]_vars

\* --------------------------------------------------------- SpecMemberSend

\* C19: send() of a string returns false and hands nothing on whenever
\* connected is false; it returns true only for a payload handed to a
\* transport that is open; and it never throws.
C19_SendOnlyWhenOpen ==
    \A r \in send_results :
        /\ r.connected = FALSE => r.result = "false"
        /\ r.result = "true" => r.state = "open"
        /\ r.result # "throw"

\* --------------------------------------------------------- SpecMemberWire

\* how often a payload occurs in a log
RECURSIVE CountOf(_, _)
CountOf(log, x) ==
    IF log = <<>> THEN 0
    ELSE (IF Head(log) = x THEN 1 ELSE 0) + CountOf(Tail(log), x)

\* C9: every PING delivered to a connected member is answered by exactly one
\* PONG, last_heartbeat_at is the clock reading of the delivery when the PONG
\* is handed to the transport, and no PING reaches the 'message' handler.
C9_PingAnswered ==
    /\ CountOf([i \in 1..Len(m_sent) |-> m_sent[i].payload], PONG)
          = CountOf(m_in, PING)
    /\ Len(m_sent) = CountOf(m_in, PING)
    /\ \A i \in 1..Len(m_sent) : m_sent[i].stamp = m_sent[i].at
    /\ \A i \in 1..Len(app_messages) : app_messages[i] # PING

\* two PINGs were answered at different clock readings
C9_Witness ==
    /\ Len(m_sent) >= 2
    /\ m_sent[1].at < m_sent[2].at
    /\ m_sent[2].stamp = last_ping

====
